---- MODULE Spec2Model ----
(***************************************************************************)
(* Media acquisition engine of the Telegram downloader bot:                *)
(*   utils.py             get_url_type, is_valid_url                       *)
(*   media_downloader.py  is_tiktok_slideshow, download_tiktok_direct,     *)
(*                        download_tiktok_slideshow, download_video        *)
(*   pinterest_extractor.py  download_pinterest_image / _video             *)
(*   bot.py               handle_url_message.download_thread               *)
(*                                                                         *)
(* A URL is a record of the parts the code inspects.  A host is the        *)
(* sequence of its dot-separated labels; Python's `needle in haystack`     *)
(* on hosts is modelled as "the labels of needle occur contiguously".      *)
(***************************************************************************)
EXTENDS Integers, Sequences, FiniteSets, TLC

(***************************************************************************)
(* Bounds of the model.                                                    *)
(***************************************************************************)
MaxClock == 1
MaxImages == 3
MaxMatches == 1

(***************************************************************************)
(* URLs.                                                                   *)
(***************************************************************************)
\* Python's None
None == [none |-> TRUE]

Hosts ==
  { <<"www", "tiktok", "com">>, <<"vm", "tiktok", "com">>,
    <<"vt", "tiktok", "com">>,  <<"m", "tiktok", "com">>,
    <<"www", "instagram", "com">>, <<"www", "youtube", "com">>,
    <<"youtu", "be">>, <<"www", "pinterest", "com">>, <<"pin", "it">>,
    <<"example", "org">> }

\* path marker: the path contains '/photo/', '/video/', 'reel/' or none of them
PathMarks == {"none", "photo", "video", "reel"}
\* value of the aweme_type query parameter
AwemeValues == {"absent", "150", "1500"}
\* value of the pic_cnt query parameter (parse_qs drops a blank value)
PicCntValues == {"absent", "0", "3", "-1", "00", "abc"}

TikTokHosts == { h \in Hosts : \E i \in 1..Len(h) : h[i] = "tiktok" }

\* the query parameters below occur on TikTok links only; kw says that one of
\* the words photo, image, slideshow occurs somewhere in the URL text
URLs ==
  { u \in [host : Hosts, pathmark : PathMarks, aweme : AwemeValues,
           pic_cnt : PicCntValues, share : BOOLEAN, kw : BOOLEAN] :
      /\ u.kw => u.share
      /\ u.host \notin TikTokHosts =>
            /\ u.aweme = "absent" /\ u.pic_cnt = "absent" /\ ~u.share }

\* `pat in s` on label sequences
Contains(s, pat) ==
  \E i \in 1..(Len(s) - Len(pat) + 1) : SubSeq(s, i, i + Len(pat) - 1) = pat

\* int(text) of Python: whether it raises ValueError, and its value otherwise
PyIntRaises(text) == text \notin {"0", "00", "3", "-1"}
PyInt(text) ==
  CASE text = "3"  -> 3
    [] text = "-1" -> 0 - 1
    [] OTHER       -> 0

\* 'photo' in url.lower() or 'image' in url.lower() or 'slideshow' in url.lower()
HasKeyword(u) == u.kw \/ u.pathmark = "photo"

\* utils.py 16-54: the message filter of the bot's URL handler
supported_domains ==
  { <<"tiktok", "com">>, <<"vm", "tiktok", "com">>, <<"instagram", "com">>,
    <<"youtube", "com">>, <<"youtu", "be">>, <<"pinterest", "com">>, <<"pin", "it">> }

is_valid_url(u) == \E supported \in supported_domains : Contains(u.host, supported)

(***************************************************************************)
(* Outcome of requests.head(url, allow_redirects=True).                    *)
(***************************************************************************)
RedirectTargets ==
  { u \in URLs : \/ /\ u.host = <<"www", "tiktok", "com">>
                    /\ ~u.share
                    /\ u.pathmark \in {"photo", "video"}
                 \/ /\ u.host = <<"www", "pinterest", "com">>
                    /\ u.pathmark \in {"none", "video"} }

HeadOutcomes ==
  { [status |-> "error", url |-> None], [status |-> "404", url |-> None] }
    \cup { [status |-> "200", url |-> t] : t \in RedirectTargets }

\* the `if response.status_code == 200: url = response.url` idiom
Resolve(url, head) == IF head.status = "200" THEN head.url ELSE url

(***************************************************************************)
(* utils.py / pinterest_extractor.py: classification of a URL.             *)
(***************************************************************************)
Kind(k, p) == [kind |-> k, platform |-> p]

is_pinterest_video_url(u) ==
  IF ~Contains(u.host, <<"pinterest">>) /\ ~Contains(u.host, <<"pin", "it">>)
  THEN FALSE
  ELSE u.pathmark \in {"video", "reel"}

\* the checks of the given URL taking pic_cnt for a signal only when it is a
\* number above 0
UrlTypeOwnSignal_NumericOnly(u) ==
  \/ u.pathmark = "photo"
  \/ u.aweme = "150"
  \/ ~PyIntRaises(u.pic_cnt) /\ PyInt(u.pic_cnt) > 0

\* the checks of the given URL's own path and query (utils.py 87-107)
UrlTypeOwnSignal(u) ==
  \/ u.pathmark = "photo"
  \/ u.aweme = "150"
  \/ /\ u.pic_cnt # "absent"
     /\ IF PyIntRaises(u.pic_cnt) THEN u.pic_cnt # "0" ELSE PyInt(u.pic_cnt) > 0

\* the checks of the resolved URL of a short link (utils.py 110-135)
UrlTypeResolvedSignal(u, head) ==
  /\ Contains(u.host, <<"vm", "tiktok", "com">>) \/ Contains(u.host, <<"vt", "tiktok", "com">>)
  /\ head.status = "200"
  /\ \/ head.url.pathmark = "photo"
     \/ head.url.aweme = "150"
     \/ head.url.pic_cnt # "absent" /\ head.url.pic_cnt # "0"

\* get_url_type without the youtu.be test of line 148
get_url_type_NoYoutuBe(u, head) ==
  IF Contains(u.host, <<"pinterest">>) \/ Contains(u.host, <<"pin", "it">>)
  THEN IF is_pinterest_video_url(u) THEN Kind("video", "pinterest")
                                    ELSE Kind("image", "pinterest")
  ELSE IF Contains(u.host, <<"instagram">>) THEN Kind("video", "instagram")
  ELSE IF Contains(u.host, <<"tiktok">>)
  THEN IF \/ UrlTypeOwnSignal(u)
          \/ UrlTypeResolvedSignal(u, head)
          \/ u.share /\ HasKeyword(u)
       THEN Kind("slideshow", "tiktok")
       ELSE Kind("video", "tiktok")
  ELSE IF Contains(u.host, <<"youtube">>)
  THEN Kind("video", "youtube")
  ELSE Kind("video", "unknown")

get_url_type(u, head) ==
  IF Contains(u.host, <<"pinterest">>) \/ Contains(u.host, <<"pin", "it">>)
  THEN IF is_pinterest_video_url(u) THEN Kind("video", "pinterest")
                                    ELSE Kind("image", "pinterest")
  ELSE IF Contains(u.host, <<"instagram">>) THEN Kind("video", "instagram")
  ELSE IF Contains(u.host, <<"tiktok">>)
  THEN IF \/ UrlTypeOwnSignal(u)
          \/ UrlTypeResolvedSignal(u, head)
          \/ u.share /\ HasKeyword(u)
       THEN Kind("slideshow", "tiktok")
       ELSE Kind("video", "tiktok")
  ELSE IF Contains(u.host, <<"youtube">>) \/ Contains(u.host, <<"youtu", "be">>)
  THEN Kind("video", "youtube")
  ELSE Kind("video", "unknown")

(***************************************************************************)
(* media_downloader.py: is_tiktok_slideshow.  `page` is the outcome of the *)
(* GET of the page: an error, a non-200 status, or the first content       *)
(* signal the page text triggers ("plain": none of them).                  *)
(***************************************************************************)
PageOutcomes ==
  { "error", "non200", "plain", "indicator", "carousel_imgs", "script_data",
    "frequency", "image_metas" }

\* lines 62-76: the URL the checks are applied to
SlideshowCheckedUrl(u, head) ==
  IF \/ Contains(u.host, <<"vm", "tiktok", "com">>)
     \/ Contains(u.host, <<"vt", "tiktok", "com">>)
     \/ ~Contains(u.host, <<"www", "tiktok", "com">>)
  THEN Resolve(u, head)
  ELSE u

\* lines 99-109: the pic_cnt parameter
PicCntSignal(u) ==
  /\ u.pic_cnt # "absent"
  /\ u.pic_cnt # "0"
  /\ PyIntRaises(u.pic_cnt) \/ PyInt(u.pic_cnt) > 0

\* is_tiktok_slideshow taking a page that could not be fetched for a slideshow
is_tiktok_slideshow_FailedPageIsSlideshow(u, head, page) ==
  LET v == SlideshowCheckedUrl(u, head) IN
  IF ~Contains(v.host, <<"tiktok">>) THEN FALSE
  ELSE IF v.pathmark = "photo" THEN TRUE
  ELSE IF v.aweme = "150" THEN TRUE
  ELSE IF PicCntSignal(v) THEN TRUE
  ELSE page # "plain"

is_tiktok_slideshow(u, head, page) ==
  LET v == SlideshowCheckedUrl(u, head) IN
  IF ~Contains(v.host, <<"tiktok">>) THEN FALSE
  ELSE IF v.pathmark = "photo" THEN TRUE
  ELSE IF v.aweme = "150" THEN TRUE
  ELSE IF PicCntSignal(v) THEN TRUE
  ELSE page \notin {"error", "non200", "plain"}

\* download_video 746-757: where it continues after is_tiktok_slideshow
\* answered (an exception of the detection is caught and logged at 756-757)
DetectBranch(u, head, page) ==
  IF is_tiktok_slideshow(u, head, page) THEN "ss_begin" ELSE "dv_options"

\* download_video 735-737: the explicit markers that skip detection
ExplicitSlideshow(u) ==
  /\ Contains(u.host, <<"tiktok">>)
  /\ u.pathmark = "photo" \/ u.aweme \in {"150", "1500"}

(***************************************************************************)
(* The scratch directories.  A path is named by the filename template and  *)
(* the values put into it; a file records its size class (0 bytes, at most *)
(* 10000 bytes, more), the content-type class the server declared for the  *)
(* body, and whether it is the remains of a fetch that failed.             *)
(***************************************************************************)
Threads == {"t1", "t2"}

Path(name, ts, idx, ext) == [name |-> name, ts |-> ts, idx |-> idx, ext |-> ext]
File(path, size, ctype, bad) == [path |-> path, size |-> size, ctype |-> ctype, bad |-> bad]

\* open(path, 'wb') and the writes that follow replace what the path held
Write(d, f) == { g \in d : g.path # f.path } \cup { f }
Exists(d, path) == \E g \in d : g.path = path
FileAt(d, path) == CHOOSE g \in d : g.path = path

\* os.path.join(DOWNLOAD_DIR, f"video_{timestamp}.%(ext)s")
VideoPath(ts) == Path("video", ts, 0, "mp4")
\* f"tiktok_fallback_{timestamp}.mp4"
FallbackPath(ts) == Path("tiktok_fallback", ts, 0, "mp4")
\* f"tiktok_savefrom_{timestamp}.mp4"
SaveFromPath(ts) == Path("tiktok_savefrom", ts, 0, "mp4")
\* f"tiktok_direct_{timestamp}.mp4", f"tiktok_page_{timestamp}.mp4"
DirectPath(ts) == Path("tiktok_direct", ts, 0, "mp4")
PagePath(ts) == Path("tiktok_page", ts, 0, "mp4")
\* f"tiktok_slideshow_{timestamp}" / f"image_{i}.jpg", "audio.mp3"
SlideImagePath(ts, i) == Path("tiktok_slideshow/image", ts, i, "jpg")
SlideAudioPath(ts) == Path("tiktok_slideshow/audio", ts, 0, "mp3")
\* f"pinterest_image_{timestamp}.{ext}", f"pinterest_video_{timestamp}.{ext}"
PinImagePath(ts, ext) == Path("pinterest_image", ts, 0, ext)
PinVideoPath(ts, ext) == Path("pinterest_video", ts, 0, ext)

(***************************************************************************)
(* utils.sanitize_filename and the names of user_storage.  A name is the    *)
(* sequence of its characters, drawn from a letter in both cases, a blank,  *)
(* and ":" for the characters of invalid_chars; the default name media_file *)
(* is kept as one token.                                                    *)
(***************************************************************************)
MaxNameLen == 1
MaxSaves == 2
MaxMedia == 1
MaxCalls == 3

Chars == {"a", "A", ":", " "}
Texts == UNION { [1..k -> Chars] : k \in 0..MaxNameLen }

\* str.strip()
RECURSIVE LStrip(_)
LStrip(t) == IF t # <<>> /\ Head(t) = " " THEN LStrip(Tail(t)) ELSE t
RECURSIVE RStrip(_)
RStrip(t) == IF t # <<>> /\ t[Len(t)] = " " THEN RStrip(SubSeq(t, 1, Len(t) - 1)) ELSE t
Strip(t) == RStrip(LStrip(t))

\* str.lower()
Lower(t) == [i \in DOMAIN t |-> IF t[i] = "A" THEN "a" ELSE t[i]]

\* utils.py 201
max_length == 50
\* bot.py 524
name_limit == 50

\* utils.py 186-212
sanitize_filename(filename) ==
  LET replaced == [i \in DOMAIN filename |-> IF filename[i] = ":" THEN "_" ELSE filename[i]]
      cut == IF Len(replaced) > max_length THEN SubSeq(replaced, 1, max_length) ELSE replaced
      sanitized == Strip(cut)
  IN  IF sanitized = <<>> THEN <<"media_file">> ELSE sanitized

MediaTypes == {"video", "image", "audio"}
\* os.path.splitext(source_path)[1] of the files the bot downloads and extracts
ExtOf(media_type) ==
  CASE media_type = "video" -> "mp4" [] media_type = "image" -> "jpg" [] OTHER -> "mp3"

\* the storage of the one user and the state of the save dialogue:
\*   user_media       user_data[str(user_id)], in the order of insertion
\*   files            the files of the user's directory and what each holds
\*   user_states      the user is in WAITING_FOR_SAVE_NAME
\*   user_data_store  the media the dialogue is about
\*   saves            how many dialogues were begun
\*   said, saved      history: the name of the last 'saved as' reply, the media saved
\*   asked, got       history: the name of the last retrieval since, and its value
\*   sent             the media the bot has sent with a Save button: id and type
\*   media_cache      the ids of media_cache[user_id]
\*   next_step        how many times save_media_name_handler is registered for the next message
\*   ended            history: how the last handler ended and the media it was about
\*   op               the call of save_media or delete_media each handler thread is in:
\*                    its arguments, its position, its local user_data
\*   log              history: the calls that returned True, in the order of their return
NoStore ==
  [user_media |-> <<>>, files |-> {}, user_states |-> FALSE, user_data_store |-> None,
   saves |-> 0, said |-> <<>>, saved |-> None, asked |-> <<>>, got |-> None,
   op |-> [r \in Threads |-> None], log |-> <<>>,
   sent |-> {}, media_cache |-> {}, next_step |-> 0, ended |-> [how |-> "none", media_id |-> 0]]

VARIABLES
  store,      \* user storage and the save dialogue of one user
  cls,        \* a classification routine applied to a URL: the inputs and the answer
  network,    \* which answers the network gives: "any", or "plain" (a complete body or a refusal)
  clock,      \* int(time.time())
  disk,       \* the files of the scratch directories
  wrote,      \* history: which request wrote which path
  pc,         \* position of each handler thread
  msg,        \* the message text (the URL) a thread handles
  mtype,      \* get_url_type(url) of handle_url_message
  url,        \* the local variable url of the running download routine
  caller,     \* who called download_tiktok_slideshow
  temp_ts,    \* timestamp of temp_filename / slideshow_dir
  video_path, \* download_video's video_path
  slides,     \* download_tiktok_slideshow's image_urls, audio_url, image_paths, audio_path
  invoked,    \* history: the strategies invoked, in order, and whether each gave a file that exists
  fetchlog,   \* history: for each image of a slideshow, whether its fetch completed
  result,     \* the value returned to handle_url_message
  reply       \* what the thread told the user

vars == << store, cls, network, clock, disk, wrote, pc, msg, mtype, url, caller, temp_ts, video_path,
           slides, invoked, fetchlog, result, reply >>

Invoked(name, ok) == [name |-> name, ok |-> ok]

(***************************************************************************)
(* The network.  A streamed GET of an asset ends in one of:                *)
(*   error   an exception before anything is written                       *)
(*   status  a status other than 200                                       *)
(*   broken  status 200, the stream breaks while the file is written       *)
(*   done    status 200, the whole body is written                         *)
(***************************************************************************)
FetchOutcome(how, size, ctype) == [how |-> how, size |-> size, ctype |-> ctype]

FetchOutcomes(kind, sizes) ==
  IF network = "plain"
  THEN { FetchOutcome("status", "empty", kind), FetchOutcome("done", "full", kind) }
  ELSE { FetchOutcome("error", "empty", kind), FetchOutcome("status", "empty", kind),
         FetchOutcome("broken", "small", kind), FetchOutcome("done", "full", "html") }
         \cup { FetchOutcome("done", z, kind) : z \in sizes }

SeqsUpTo(S, n) == UNION { [1..k -> S] : k \in 0..n }

\* ydl.extract_info(url, download=True) and the filename it reports
YdlOutcomes == IF network = "plain" THEN {"none", "ok"} ELSE {"raise", "none", "missing", "ok"}

NoSlides == [image_urls |-> <<>>, audio_url |-> FALSE, image_paths |-> <<>>, audio_path |-> None]

\* the messages a thread may be given
RequestURLs ==
  { u \in URLs :
      /\ ~u.share /\ u.pic_cnt = "absent"
      /\ \/ u.host = <<"www", "tiktok", "com">> /\ u.pathmark \in {"video", "photo"}
            /\ u.aweme \in {"absent", "1500"} /\ (u.aweme = "1500" => u.pathmark = "video")
         \/ u.host = <<"vm", "tiktok", "com">> /\ u.pathmark = "none" /\ u.aweme = "absent"
         \/ u.host = <<"www", "pinterest", "com">> /\ u.pathmark \in {"none", "video"}
         \/ u.host = <<"www", "youtube", "com">> /\ u.pathmark = "none"
         \/ u.host = <<"pin", "it">> /\ u.pathmark = "none"
         \/ u.host = <<"example", "org">> /\ u.pathmark = "none" }

\* what a redirect of a message resolves to
RequestHeads ==
  { h \in HeadOutcomes :
      /\ network = "plain" => h.status # "error"
      /\ h.status = "200" =>
           /\ h.url.host = <<"www", "tiktok", "com">>
           /\ h.url.aweme = "absent" /\ h.url.pic_cnt = "absent" }

\* what the GET of the page gives the slideshow detection
RequestPages == IF network = "plain" THEN {"plain", "indicator"} ELSE PageOutcomes

InitThreads ==
  /\ store = NoStore
  /\ clock = 0
  /\ disk = {}
  /\ wrote = {}
  /\ pc = [r \in Threads |-> "idle"]
  /\ msg = [r \in Threads |-> None]
  /\ mtype = [r \in Threads |-> None]
  /\ url = [r \in Threads |-> None]
  /\ caller = [r \in Threads |-> "none"]
  /\ temp_ts = [r \in Threads |-> 0]
  /\ video_path = [r \in Threads |-> None]
  /\ slides = [r \in Threads |-> NoSlides]
  /\ invoked = [r \in Threads |-> <<>>]
  /\ fetchlog = [r \in Threads |-> <<>>]
  /\ result = [r \in Threads |-> None]
  /\ reply = [r \in Threads |-> "none"]

\* time passes
Tick ==
  /\ clock < MaxClock
  /\ clock' = clock + 1
  /\ UNCHANGED << store, cls, network, fetchlog, disk, wrote, pc, msg, mtype, url, caller, temp_ts, video_path,
                  slides, invoked, result, reply >>

(***************************************************************************)
(* bot.py: handle_url_message.                                             *)
(***************************************************************************)
\* lines 162-180 and 363-365: classify, post the status, start the thread
HandleUrlMessage(r) ==
  /\ pc[r] = "idle"
  /\ \E u \in RequestURLs, head \in RequestHeads :
       /\ is_valid_url(u)
       /\ msg' = [msg EXCEPT ![r] = u]
       /\ url' = [url EXCEPT ![r] = u]
       /\ mtype' = [mtype EXCEPT ![r] = get_url_type(u, head)]
  /\ pc' = [pc EXCEPT ![r] = "thread"]
  /\ UNCHANGED << store, cls, network, fetchlog, clock, disk, wrote, caller, temp_ts, video_path, slides, invoked,
                  result, reply >>

\* lines 183-218 without the slideshow branch of line 203
DownloadThread_NoSlideshowBranch(r) ==
  /\ pc[r] = "thread"
  /\ IF mtype[r].platform = "pinterest"
     THEN pc' = [pc EXCEPT ![r] = IF mtype[r].kind = "image" THEN "pin_image" ELSE "pin_video"]
     ELSE pc' = [pc EXCEPT ![r] = "dv_begin"]
  /\ UNCHANGED << store, cls, network, fetchlog, clock, disk, wrote, msg, mtype, url, caller, temp_ts, video_path,
                  slides, invoked, result, reply >>

\* lines 183-218: the thread picks the download routine
DownloadThread(r) ==
  /\ pc[r] = "thread"
  /\ IF mtype[r].platform = "pinterest"
     THEN /\ pc' = [pc EXCEPT ![r] = IF mtype[r].kind = "image" THEN "pin_image" ELSE "pin_video"]
          /\ UNCHANGED caller
     ELSE IF mtype[r].platform = "tiktok" /\ mtype[r].kind = "slideshow"
     THEN /\ pc' = [pc EXCEPT ![r] = "ss_begin"]
          /\ caller' = [caller EXCEPT ![r] = "bot"]
     ELSE /\ pc' = [pc EXCEPT ![r] = "dv_begin"]
          /\ UNCHANGED caller
  /\ UNCHANGED << store, cls, network, fetchlog, clock, disk, wrote, msg, mtype, url, temp_ts, video_path, slides,
                  invoked, result, reply >>

(***************************************************************************)
(* media_downloader.py: download_video.                                    *)
(***************************************************************************)
\* `not video_path or not os.path.exists(video_path)`
NoVideo(d, vp) == vp = None \/ ~Exists(d, vp)

\* the outer `except Exception: return None` of a download routine, and every
\* other `return None` of it
ReturnTo(r, value) ==
  /\ result' = [result EXCEPT ![r] = value]
  /\ pc' = [pc EXCEPT ![r] = "deliver"]
  /\ UNCHANGED reply

\* lines 729-757: the slideshow pre-check and the slideshow detection
DvDetect(r) ==
  /\ pc[r] = "dv_begin"
  /\ IF ~Contains(msg[r].host, <<"tiktok">>)
     THEN /\ pc' = [pc EXCEPT ![r] = "dv_options"]
          /\ UNCHANGED caller
     ELSE IF ExplicitSlideshow(url[r])
     THEN /\ pc' = [pc EXCEPT ![r] = "ss_begin"]
          /\ caller' = [caller EXCEPT ![r] = "precheck"]
     ELSE \E head \in RequestHeads, page \in RequestPages :
            /\ pc' = [pc EXCEPT ![r] = DetectBranch(url[r], head, page)]
            /\ IF DetectBranch(url[r], head, page) = "ss_begin"
               THEN caller' = [caller EXCEPT ![r] = "detect"]
               ELSE UNCHANGED caller
  /\ UNCHANGED << store, cls, network, fetchlog, clock, disk, wrote, msg, mtype, url, temp_ts, video_path, slides,
                  invoked, result, reply >>

\* lines 759-842: the options, the resolution of a vm.tiktok.com link, temp_filename
DvOptions(r) ==
  /\ pc[r] = "dv_options"
  /\ IF Contains(msg[r].host, <<"vm", "tiktok", "com">>)
     THEN \E head \in RequestHeads : url' = [url EXCEPT ![r] = Resolve(url[r], head)]
     ELSE UNCHANGED url
  /\ temp_ts' = [temp_ts EXCEPT ![r] = clock]
  /\ pc' = [pc EXCEPT ![r] = "dv_generic"]
  /\ UNCHANGED << store, cls, network, fetchlog, clock, disk, wrote, msg, mtype, caller, video_path, slides, invoked,
                  result, reply >>

\* download(): what video_path and the disk are after one run of yt-dlp
YdlPath(o, ts) == IF o = "none" THEN None ELSE VideoPath(ts)
YdlDisk(o, ts, d) ==
  IF o = "ok" THEN Write(d, File(VideoPath(ts), "full", "video", FALSE)) ELSE d

\* line 868 or 881 raised: where control goes
YdlRaised(r) == ReturnTo(r, None)

\* where control goes after strategy 1 (line 871), for a TikTok URL and for another
AfterGenericTikTok(d, vp) == IF NoVideo(d, vp) THEN "dv_alternate" ELSE "dv_return"
AfterGenericOther(d, vp) == "dv_return"

\* strategy 2 failed and the page scrape is passed over
AfterAlternate_SkipScrape(d, vp) == IF NoVideo(d, vp) THEN "dv_savefrom" ELSE "dv_return"
\* the test of line 928 always passes
AfterScrape_NoShortCircuit(d, vp) == "dv_savefrom"

\* where the chain goes after strategy 2 and after strategy 3 (lines 884, 928)
AfterAlternate(d, vp) == IF NoVideo(d, vp) THEN "dv_scrape" ELSE "dv_return"
AfterScrape(d, vp) == IF NoVideo(d, vp) THEN "dv_savefrom" ELSE "dv_return"
\* after strategy 4 nothing is left but the final test of line 965
AfterSaveFrom(d, vp) == "dv_return"

\* where control goes after the strategy `name` of the request r
After(r, name, d, vp) ==
  CASE name = "generic"   -> IF Contains(msg[r].host, <<"tiktok">>)
                             THEN AfterGenericTikTok(d, vp) ELSE AfterGenericOther(d, vp)
    [] name = "alternate" -> AfterAlternate(d, vp)
    [] name = "scrape"    -> AfterScrape(d, vp)
    [] name = "savefrom"  -> AfterSaveFrom(d, vp)

\* one run of download() by run_in_executor (line 868 or 881)
RunYdl(r, name) ==
  \E o \in YdlOutcomes :
    /\ invoked' = [invoked EXCEPT ![r] = Append(@, Invoked(name, o = "ok"))]
    /\ IF o = "raise"
       THEN /\ YdlRaised(r)
            /\ UNCHANGED << disk, wrote, video_path >>
       ELSE /\ video_path' = [video_path EXCEPT ![r] = YdlPath(o, temp_ts[r])]
            /\ disk' = YdlDisk(o, temp_ts[r], disk)
            /\ wrote' = IF o = "ok" THEN wrote \cup {[req |-> r, path |-> VideoPath(temp_ts[r])]}
                                    ELSE wrote
            /\ pc' = [pc EXCEPT ![r] = After(r, name, disk', video_path'[r])]
            /\ UNCHANGED << result, reply >>

\* lines 844-871: strategy 1, yt-dlp with the platform's options
DvGeneric(r) ==
  /\ pc[r] = "dv_generic"
  /\ RunYdl(r, "generic")
  /\ UNCHANGED << store, cls, network, fetchlog, clock, msg, mtype, url, caller, temp_ts, slides >>

\* lines 872-881: strategy 2, yt-dlp with the musicaldown embed API
DvAlternate(r) ==
  /\ pc[r] = "dv_alternate"
  /\ RunYdl(r, "alternate")
  /\ UNCHANGED << store, cls, network, fetchlog, clock, msg, mtype, url, caller, temp_ts, slides >>

\* size > 10000
BigEnough(size) == size = "full"

\* the loop over the matched links (lines 902-922, 944-961): each is streamed
\* to `path`; the first file of more than 10000 bytes ends the loop
RECURSIVE TryMatches(_, _, _)
TryMatches(outs, path, d) ==
  IF outs = <<>> THEN [disk |-> d, found |-> None, wrote |-> FALSE]
  ELSE LET o == Head(outs) IN
       IF o.how \in {"error", "status"} THEN TryMatches(Tail(outs), path, d)
       ELSE IF o.how = "done" /\ BigEnough(o.size)
       THEN [disk |-> Write(d, File(path, o.size, o.ctype, FALSE)), found |-> path, wrote |-> TRUE]
       ELSE [TryMatches(Tail(outs), path, Write(d, File(path, o.size, o.ctype, TRUE)))
               EXCEPT !.wrote = TRUE]

\* the page of a scrape strategy: an error, a status other than 200, or the
\* outcomes of the fetches of the links matched in it
ScrapePages ==
  { p \in { [status |-> "error", matches |-> <<>>], [status |-> "non200", matches |-> <<>>] } :
      network = "plain" => p.status # "error" }
    \cup { [status |-> "200", matches |-> m] :
             m \in SeqsUpTo(FetchOutcomes("video", {"small", "full"}), MaxMatches) }

\* a scrape strategy: the page is fetched, the links matched in it are tried
Scrape(r, name, path) ==
  /\ \E page \in ScrapePages :
       LET t == TryMatches(page.matches, path, disk) IN
       /\ invoked' = [invoked EXCEPT ![r] = Append(@, Invoked(name, t.found # None))]
       /\ disk' = t.disk
       /\ wrote' = IF t.wrote THEN wrote \cup {[req |-> r, path |-> path]} ELSE wrote
       /\ video_path' = [video_path EXCEPT ![r] = IF t.found # None THEN t.found ELSE @]
       /\ pc' = [pc EXCEPT ![r] = After(r, name, disk', video_path'[r])]
  /\ UNCHANGED << store, cls, network, fetchlog, clock, msg, mtype, url, caller, temp_ts, slides, result, reply >>

\* lines 883-925: strategy 3, the links found in the page itself
DvScrape(r) ==
  /\ pc[r] = "dv_scrape"
  /\ Scrape(r, "scrape", FallbackPath(clock))

\* lines 927-963: strategy 4, the links found in the SaveFrom page
DvSaveFrom(r) ==
  /\ pc[r] = "dv_savefrom"
  /\ Scrape(r, "savefrom", SaveFromPath(clock))

\* lines 965-970
DvReturn(r) ==
  /\ pc[r] = "dv_return"
  /\ ReturnTo(r, IF NoVideo(disk, video_path[r]) THEN None
                 ELSE [type |-> "file", kind |-> "video", path |-> video_path[r]])
  /\ UNCHANGED << store, cls, network, fetchlog, clock, disk, wrote, msg, mtype, url, caller, temp_ts, video_path,
                  slides, invoked >>

(***************************************************************************)
(* media_downloader.py: download_tiktok_slideshow.                         *)
(***************************************************************************)
\* the page of the slideshow: an error, a status other than 200, or the image
\* URLs (in the order the extraction methods find them) and whether an audio
\* URL is found
SlidePages ==
  { p \in { [status |-> "error", n |-> 0, audio |-> FALSE],
            [status |-> "non200", n |-> 0, audio |-> FALSE] } :
      network = "plain" => p.status # "error" }
    \cup { [status |-> "200", n |-> n, audio |-> a] :
             n \in 0..(IF network = "plain" THEN 1 ELSE MaxImages), a \in BOOLEAN }

\* SlideshowReturn sending download_video back to its slideshow detection, not
\* on to the options, when the slideshow it detected could not be downloaded
SlideshowReturn_DetectAgain(r, value) ==
  /\ slides' = [slides EXCEPT ![r] = NoSlides]
  /\ IF value # None
     THEN ReturnTo(r, [type |-> "slideshow", images |-> value.images, audio |-> value.audio])
     ELSE IF caller[r] = "bot"
     THEN /\ reply' = [reply EXCEPT ![r] = "slideshow_failed"]
          /\ pc' = [pc EXCEPT ![r] = "done"]
          /\ UNCHANGED result
     ELSE IF caller[r] = "precheck"
     THEN ReturnTo(r, None)
     ELSE /\ pc' = [pc EXCEPT ![r] = "dv_begin"]
          /\ UNCHANGED << result, reply >>

\* SlideshowReturn letting download_video go on to its video strategies when
\* the slideshow its pre-check recognised could not be downloaded
SlideshowReturn_PrecheckFallsBack(r, value) ==
  /\ slides' = [slides EXCEPT ![r] = NoSlides]
  /\ IF value # None
     THEN ReturnTo(r, [type |-> "slideshow", images |-> value.images, audio |-> value.audio])
     ELSE IF caller[r] = "bot"
     THEN /\ reply' = [reply EXCEPT ![r] = "slideshow_failed"]
          /\ pc' = [pc EXCEPT ![r] = "done"]
          /\ UNCHANGED result
     ELSE /\ pc' = [pc EXCEPT ![r] = "dv_options"]
          /\ UNCHANGED << result, reply >>

\* what each caller does with the value download_tiktok_slideshow returns:
\* bot.py 208-215, download_video 740-744, download_video 752-755
SlideshowReturn(r, value) ==
  /\ slides' = [slides EXCEPT ![r] = NoSlides]
  /\ IF value # None
     THEN ReturnTo(r, [type |-> "slideshow", images |-> value.images, audio |-> value.audio])
     ELSE IF caller[r] = "bot"
     THEN /\ reply' = [reply EXCEPT ![r] = "slideshow_failed"]
          /\ pc' = [pc EXCEPT ![r] = "done"]
          /\ UNCHANGED result
     ELSE IF caller[r] = "precheck"
     THEN ReturnTo(r, None)
     ELSE /\ pc' = [pc EXCEPT ![r] = "dv_options"]
          /\ UNCHANGED << result, reply >>

\* lines 347-658: the directory, the page and the URLs extracted from it
SsBegin(r) ==
  /\ pc[r] = "ss_begin"
  /\ temp_ts' = [temp_ts EXCEPT ![r] = clock]
  /\ IF Contains(url[r].host, <<"vm", "tiktok", "com">>) \/ Contains(url[r].host, <<"vt", "tiktok", "com">>)
     THEN \E head \in RequestHeads : url' = [url EXCEPT ![r] = Resolve(url[r], head)]
     ELSE UNCHANGED url
  /\ \E page \in SlidePages :
       IF page.status = "200" /\ page.n > 0
       THEN /\ slides' = [slides EXCEPT ![r] =
                 [image_urls |-> [i \in 1..page.n |-> i], audio_url |-> page.audio,
                  image_paths |-> <<>>, audio_path |-> None]]
            /\ pc' = [pc EXCEPT ![r] = "ss_images"]
            /\ UNCHANGED << result, reply >>
       ELSE SlideshowReturn(r, None)
  /\ UNCHANGED << store, cls, network, fetchlog, clock, disk, wrote, msg, mtype, caller, video_path, invoked >>

\* the loop of lines 662-675 leaving at the first fetch that fails
RECURSIVE FetchImages_StopAtFailure(_, _, _, _, _)
FetchImages_StopAtFailure(outs, i, ts, d, paths) ==
  IF i >= Len(outs) THEN [disk |-> d, image_paths |-> paths]
  ELSE LET o == outs[i + 1]
           p == SlideImagePath(ts, i)
       IN  IF o.how \in {"error", "status"} THEN [disk |-> d, image_paths |-> paths]
           ELSE IF o.how = "broken"
           THEN [disk |-> Write(d, File(p, o.size, o.ctype, TRUE)), image_paths |-> paths]
           ELSE FetchImages_StopAtFailure(outs, i + 1, ts,
                                          Write(d, File(p, o.size, o.ctype, FALSE)),
                                          Append(paths, p))

\* the loop of lines 662-675 putting each new path in front of the list
RECURSIVE FetchImages_NewestFirst(_, _, _, _, _)
FetchImages_NewestFirst(outs, i, ts, d, paths) ==
  IF i >= Len(outs) THEN [disk |-> d, image_paths |-> paths]
  ELSE LET o == outs[i + 1]
           p == SlideImagePath(ts, i)
       IN  IF o.how \in {"error", "status"} THEN FetchImages_NewestFirst(outs, i + 1, ts, d, paths)
           ELSE IF o.how = "broken"
           THEN FetchImages_NewestFirst(outs, i + 1, ts,
                                        Write(d, File(p, o.size, o.ctype, TRUE)), paths)
           ELSE FetchImages_NewestFirst(outs, i + 1, ts,
                                        Write(d, File(p, o.size, o.ctype, FALSE)),
                                        <<p>> \o paths)

\* one pass of the loop of lines 662-675 (i counts from 0), and the loop
RECURSIVE FetchImages(_, _, _, _, _)
FetchImages(outs, i, ts, d, paths) ==
  IF i >= Len(outs) THEN [disk |-> d, image_paths |-> paths]
  ELSE LET o == outs[i + 1]
           p == SlideImagePath(ts, i)
       IN  IF o.how \in {"error", "status"} THEN FetchImages(outs, i + 1, ts, d, paths)
           ELSE IF o.how = "broken"
           THEN FetchImages(outs, i + 1, ts, Write(d, File(p, o.size, o.ctype, TRUE)), paths)
           ELSE FetchImages(outs, i + 1, ts, Write(d, File(p, o.size, o.ctype, FALSE)),
                            Append(paths, p))

\* the paths image fetches wrote to
ImageWrites(outs, ts) ==
  { SlideImagePath(ts, i - 1) : i \in { j \in 1..Len(outs) : outs[j].how \in {"broken", "done"} } }

\* lines 660-675: the images are fetched in turn
SsImages(r) ==
  /\ pc[r] = "ss_images"
  /\ \E outs \in [1..Len(slides[r].image_urls) -> FetchOutcomes("image", {"empty", "full"})] :
       LET t == FetchImages(outs, 0, temp_ts[r], disk, <<>>) IN
       /\ disk' = t.disk
       /\ wrote' = wrote \cup { [req |-> r, path |-> p] : p \in ImageWrites(outs, temp_ts[r]) }
       /\ slides' = [slides EXCEPT ![r].image_paths = t.image_paths]
       /\ fetchlog' = [fetchlog EXCEPT ![r] = [i \in 1..Len(outs) |-> outs[i].how = "done"]]
  /\ pc' = [pc EXCEPT ![r] = "ss_audio"]
  /\ UNCHANGED << store, cls, network, clock, msg, mtype, url, caller, temp_ts, video_path, invoked, result, reply >>

\* lines 695-708 without the test of line 696
SlideshowResult_NoImageCheck(image_paths, audio_path) ==
  [images |-> image_paths, audio |-> audio_path]

\* lines 695-708: the value returned once the fetches are over
SlideshowResult(image_paths, audio_path) ==
  IF image_paths = <<>> THEN None
  ELSE [images |-> image_paths, audio |-> audio_path]

\* lines 677-708: the audio is fetched, the bundle is returned
SsAudio(r) ==
  /\ pc[r] = "ss_audio"
  /\ IF slides[r].audio_url
     THEN \E o \in FetchOutcomes("audio", {"empty", "full"}) :
            LET p == SlideAudioPath(temp_ts[r]) IN
            /\ disk' = IF o.how \in {"broken", "done"}
                       THEN Write(disk, File(p, o.size, o.ctype, o.how = "broken")) ELSE disk
            /\ wrote' = IF o.how \in {"broken", "done"}
                        THEN wrote \cup {[req |-> r, path |-> p]} ELSE wrote
            /\ SlideshowReturn(r, SlideshowResult(slides[r].image_paths,
                                                  IF o.how = "done" THEN p ELSE None))
     ELSE /\ UNCHANGED << disk, wrote >>
          /\ SlideshowReturn(r, SlideshowResult(slides[r].image_paths, None))
  /\ UNCHANGED << store, cls, network, fetchlog, clock, msg, mtype, url, caller, temp_ts, video_path, invoked >>

(***************************************************************************)
(* media_downloader.py: download_tiktok_direct (no caller in the bot: an   *)
(* entry point of its own).                                                *)
(***************************************************************************)
DirectApiNames == <<"snaptik", "tikmate", "ssstik">>

\* what one API gives: no link (an error, a status other than 200, no match),
\* or a link and the outcome of its streamed download
ApiOutcomes ==
  { [link |-> FALSE, fetch |-> FetchOutcome("status", "empty", "video")] }
    \cup { [link |-> TRUE, fetch |-> f] : f \in FetchOutcomes("video", {"empty", "full"}) }

\* lines 262-273: raise_for_status, the write, return output_path
DirectApiSucceeds(o) == o.link /\ o.fetch.how = "done"

\* lines 239-276: the APIs are tried in turn; `tried` is how many were invoked
RECURSIVE TryApis(_, _, _, _)
TryApis(outs, i, path, d) ==
  IF i > Len(outs) THEN [disk |-> d, found |-> None, tried |-> Len(outs), wrote |-> FALSE]
  ELSE LET o == outs[i] IN
       IF DirectApiSucceeds(o)
       THEN [disk |-> Write(d, File(path, o.fetch.size, o.fetch.ctype, FALSE)),
             found |-> path, tried |-> i, wrote |-> TRUE]
       ELSE IF o.link /\ o.fetch.how = "broken"
       THEN [TryApis(outs, i + 1, path, Write(d, File(path, o.fetch.size, o.fetch.ctype, TRUE)))
               EXCEPT !.wrote = TRUE]
       ELSE TryApis(outs, i + 1, path, d)

\* the caller of download_tiktok_direct gets the value
DirectReturn(r, value) ==
  /\ result' = [result EXCEPT ![r] = value]
  /\ pc' = [pc EXCEPT ![r] = "done"]

\* a call of download_tiktok_direct(url)
CallDirect(r) ==
  /\ pc[r] = "idle"
  /\ \E u \in { v \in RequestURLs : v.host \in TikTokHosts /\ v.pathmark # "photo" /\ v.aweme = "absent" } :
       /\ msg' = [msg EXCEPT ![r] = u]
       /\ url' = [url EXCEPT ![r] = u]
  /\ pc' = [pc EXCEPT ![r] = "direct_apis"]
  /\ UNCHANGED << store, cls, network, fetchlog, clock, disk, wrote, mtype, caller, temp_ts, video_path, slides,
                  invoked, result, reply >>

\* lines 192-276: the short link is resolved, the three APIs are tried
DirectApis(r) ==
  /\ pc[r] = "direct_apis"
  /\ IF Contains(url[r].host, <<"vm", "tiktok", "com">>) \/ Contains(url[r].host, <<"vt", "tiktok", "com">>)
     THEN \E head \in RequestHeads : url' = [url EXCEPT ![r] = Resolve(url[r], head)]
     ELSE UNCHANGED url
  /\ \E outs \in [1..Len(DirectApiNames) -> ApiOutcomes] :
       LET t == TryApis(outs, 1, DirectPath(clock), disk) IN
       /\ disk' = t.disk
       /\ wrote' = IF t.wrote THEN wrote \cup {[req |-> r, path |-> DirectPath(clock)]} ELSE wrote
       /\ invoked' = [invoked EXCEPT ![r] =
                         [i \in 1..t.tried |-> Invoked(DirectApiNames[i], i = t.tried /\ t.found # None)]]
       /\ IF t.found # None
          THEN DirectReturn(r, [type |-> "file", kind |-> "video", path |-> t.found])
          ELSE /\ pc' = [pc EXCEPT ![r] = "direct_page"]
               /\ UNCHANGED result
  /\ UNCHANGED << store, cls, network, fetchlog, clock, msg, mtype, caller, temp_ts, video_path, slides, reply >>

\* lines 278-330: the links found in the page itself
DirectPage(r) ==
  /\ pc[r] = "direct_page"
  /\ \E page \in ScrapePages :
       LET t == TryMatches(page.matches, PagePath(clock), disk) IN
       /\ invoked' = [invoked EXCEPT ![r] = Append(@, Invoked("page", t.found # None))]
       /\ disk' = t.disk
       /\ wrote' = IF t.wrote THEN wrote \cup {[req |-> r, path |-> PagePath(clock)]} ELSE wrote
       /\ DirectReturn(r, IF t.found # None
                          THEN [type |-> "file", kind |-> "video", path |-> t.found] ELSE None)
  /\ UNCHANGED << store, cls, network, fetchlog, clock, msg, mtype, url, caller, temp_ts, video_path, slides, reply >>

(***************************************************************************)
(* pinterest_extractor.py.                                                 *)
(***************************************************************************)
\* the class of a declared content-type
CtClass(ct) ==
  CASE ct \in {"image/jpeg", "image/png"} -> "image"
    [] ct = "video/mp4" -> "video"
    [] ct = "application/octet-stream" -> "octet"
    [] OTHER -> "html"

\* download_pinterest_image 132-144
PinImageExt(ct) ==
  CASE ct = "image/jpeg" -> "jpg"
    [] ct = "image/png"  -> "png"
    [] ct = "image/gif"  -> "gif"
    [] ct = "image/webp" -> "webp"
    [] OTHER             -> "jpg"

\* download_pinterest_video 311-320: in_url is the extension the video URL names
PinVideoExt(in_url) == IF in_url \in {"mp4", "webm", "mov"} THEN in_url ELSE "mp4"

\* the GET of the image (not streamed): no URL or no answer, or a body
PinImageOutcomes ==
  { [got |-> FALSE, size |-> "empty", ct |-> "text/html"] }
    \cup { [got |-> TRUE, size |-> z, ct |-> ct] :
             z \in (IF network = "plain" THEN {"full"} ELSE {"empty", "full"}),
             ct \in (IF network = "plain" THEN {"image/jpeg"}
                     ELSE {"image/jpeg", "image/png", "text/html"}) }

\* download_pinterest_image, lines 35-161
PinImage(r) ==
  /\ pc[r] = "pin_image"
  /\ \E o \in PinImageOutcomes :
       LET p == PinImagePath(clock, PinImageExt(o.ct)) IN
       IF o.got
       THEN /\ disk' = Write(disk, File(p, o.size, CtClass(o.ct), FALSE))
            /\ wrote' = wrote \cup {[req |-> r, path |-> p]}
            /\ ReturnTo(r, [type |-> "file", kind |-> "image", path |-> p])
       ELSE /\ UNCHANGED << disk, wrote >>
            /\ ReturnTo(r, None)
  /\ UNCHANGED << store, cls, network, fetchlog, clock, msg, mtype, url, caller, temp_ts, video_path, slides, invoked >>

\* download_pinterest_video 311-315
PinVideoTypeOk(ct) == CtClass(ct) \in {"video", "octet"}

\* the streamed GET of the video: no URL or no answer, or status 200 with a
\* declared type and a stream that breaks or not
PinVideoOutcomes ==
  { [got |-> FALSE, how |-> "status", size |-> "empty", ct |-> "text/html", in_url |-> "none"] }
    \cup { [got |-> TRUE, how |-> h, size |-> (IF h = "broken" THEN "small" ELSE "full"), ct |-> ct,
             in_url |-> e] :
             h \in (IF network = "plain" THEN {"done"} ELSE {"broken", "done"}),
             ct \in (IF network = "plain" THEN {"video/mp4"}
                     ELSE {"video/mp4", "application/octet-stream", "text/html"}),
             e \in (IF network = "plain" THEN {"mp4"} ELSE {"mp4", "webm", "none"}) }

\* download_pinterest_video, lines 175-345
PinVideo(r) ==
  /\ pc[r] = "pin_video"
  /\ \E o \in PinVideoOutcomes :
       LET p == PinVideoPath(clock, PinVideoExt(o.in_url)) IN
       IF o.got /\ PinVideoTypeOk(o.ct)
       THEN /\ disk' = Write(disk, File(p, o.size, CtClass(o.ct), o.how = "broken"))
            /\ wrote' = wrote \cup {[req |-> r, path |-> p]}
            /\ ReturnTo(r, IF o.how = "done" THEN [type |-> "file", kind |-> "video", path |-> p]
                           ELSE None)
       ELSE /\ UNCHANGED << disk, wrote >>
            /\ ReturnTo(r, None)
  /\ UNCHANGED << store, cls, network, fetchlog, clock, msg, mtype, url, caller, temp_ts, video_path, slides, invoked >>

(***************************************************************************)
(* bot.py 220-361: what the thread does with download_result.              *)
(***************************************************************************)
\* lines 329-361: the status message is deleted, then the file is sent.
\* Telegram may refuse the file (too large, empty, not a media file): the
\* except clause of line 359 then edits the status message, which is gone, the
\* edit raises too, and the thread ends having sent nothing
SendOutcomes == IF network = "plain" THEN {"media_sent"} ELSE {"media_sent", "nothing"}

Deliver(r) ==
  /\ pc[r] = "deliver"
  /\ \E sent \in SendOutcomes :
       reply' = [reply EXCEPT ![r] =
         IF result[r] = None THEN "failed"
         ELSE IF result[r].type = "slideshow"
         THEN IF result[r].images = <<>> THEN "no_images" ELSE "slideshow_sent"
         ELSE IF ~Exists(disk, result[r].path) THEN "no_file"
         ELSE sent]
  /\ pc' = [pc EXCEPT ![r] = "done"]
  /\ UNCHANGED << store, cls, network, fetchlog, clock, disk, wrote, msg, mtype, url, caller, temp_ts, video_path,
                  slides, invoked, result >>

Step(r) ==
  \/ HandleUrlMessage(r)
  \/ DownloadThread(r)
  \/ DvDetect(r)
  \/ DvOptions(r)
  \/ DvGeneric(r)
  \/ DvAlternate(r)
  \/ DvScrape(r)
  \/ DvSaveFrom(r)
  \/ DvReturn(r)
  \/ SsBegin(r)
  \/ SsImages(r)
  \/ SsAudio(r)
  \/ CallDirect(r)
  \/ DirectApis(r)
  \/ DirectPage(r)
  \/ PinImage(r)
  \/ PinVideo(r)
  \/ Deliver(r)

(***************************************************************************)
(* Network calls made without a timeout= argument wait for as long as the  *)
(* server keeps the connection open.                                       *)
(***************************************************************************)
\* the next step of the thread begins with a call that has no timeout:
\* media_downloader.py 71, 121, 199, 376, 384, 665, 682, 779, 939 and
\* pinterest_extractor.py 47, 55, 127, 188, 196, 306
NoTimeoutCall(r) ==
  \/ pc[r] = "dv_begin" /\ Contains(msg[r].host, <<"tiktok">>) /\ ~ExplicitSlideshow(url[r])
  \/ pc[r] = "dv_options" /\ Contains(msg[r].host, <<"vm", "tiktok", "com">>)
  \/ pc[r] \in {"dv_savefrom", "ss_begin", "pin_image", "pin_video"}
  \/ pc[r] = "ss_images" /\ slides[r].image_urls # <<>>
  \/ pc[r] = "ss_audio" /\ slides[r].audio_url
  \/ pc[r] = "direct_apis" /\ \/ Contains(msg[r].host, <<"vm", "tiktok", "com">>)
                               \/ Contains(msg[r].host, <<"vt", "tiktok", "com">>)

\* the server accepts the connection and never answers: the call never returns
Hang(r) ==
  /\ network = "any"
  /\ NoTimeoutCall(r)
  /\ pc' = [pc EXCEPT ![r] = "hung"]
  /\ UNCHANGED << store, cls, network, fetchlog, clock, disk, wrote, msg, mtype, url, caller, temp_ts, video_path,
                  slides, invoked, result, reply >>

\* utils.py 110-117: the same in get_url_type, called by the handler itself
\* before the status message is posted
HangInHandler(r) ==
  /\ network = "any"
  /\ pc[r] = "idle"
  /\ \E u \in RequestURLs :
       /\ is_valid_url(u)
       /\ ~UrlTypeOwnSignal(u)
       /\ Contains(u.host, <<"vm", "tiktok", "com">>) \/ Contains(u.host, <<"vt", "tiktok", "com">>)
       /\ msg' = [msg EXCEPT ![r] = u]
       /\ url' = [url EXCEPT ![r] = u]
  /\ pc' = [pc EXCEPT ![r] = "hung"]
  /\ UNCHANGED << store, cls, network, fetchlog, clock, disk, wrote, mtype, caller, temp_ts, video_path,
                  slides, invoked, result, reply >>

\* one handler thread, any network
Init == cls = None /\ network = "any" /\ InitThreads
Next == Tick \/ Step("t1") \/ Hang("t1") \/ HangInHandler("t1")
Spec == Init /\ [][Next]_vars

\* the same, where the thread takes its next step whenever it has one: a
\* Python thread that is not blocked runs on
SpecLive == Init /\ [][Next]_vars /\ WF_vars(Step("t1"))

\* two handler threads running concurrently; every answer of the network is a
\* complete body or a refusal
InitConc == cls = None /\ network = "plain" /\ InitThreads
NextConc == Tick \/ \E r \in Threads : Step(r)
SpecConc == InitConc /\ [][NextConc]_vars

(***************************************************************************)
(* The classification routines as functions of the URL and of what the     *)
(* network answers: every URL, every outcome of the redirect, every page.  *)
(***************************************************************************)
Classified(u, fn, head, page, out) ==
  [url |-> u, fn |-> fn, head |-> head, page |-> page, out |-> out]

NoHead == [status |-> "error", url |-> None]

InitClassify ==
  /\ cls \in { Classified(u, "none", NoHead, "plain", None) : u \in URLs }
  /\ network = "any"
  /\ InitThreads

\* utils.get_url_type(url)
ClassifyUrlType ==
  /\ cls.fn = "none"
  /\ \E head \in HeadOutcomes :
       cls' = Classified(cls.url, "get_url_type", head, "plain", get_url_type(cls.url, head))
  /\ UNCHANGED << store, network, clock, disk, wrote, pc, msg, mtype, url, caller, temp_ts,
                  video_path, slides, invoked, fetchlog, result, reply >>

\* media_downloader.is_tiktok_slideshow(url)
ClassifySlideshow ==
  /\ cls.fn = "none"
  /\ \E head \in HeadOutcomes, page \in PageOutcomes :
       cls' = Classified(cls.url, "is_tiktok_slideshow", head, page,
                         [slideshow |-> is_tiktok_slideshow(cls.url, head, page)])
  /\ UNCHANGED << store, network, clock, disk, wrote, pc, msg, mtype, url, caller, temp_ts,
                  video_path, slides, invoked, fetchlog, result, reply >>

\* the pre-check of download_video(url), lines 735-737
ClassifyPreCheck ==
  /\ cls.fn = "none"
  /\ cls' = Classified(cls.url, "precheck", NoHead, "plain",
                       [slideshow |-> ExplicitSlideshow(cls.url)])
  /\ UNCHANGED << store, network, clock, disk, wrote, pc, msg, mtype, url, caller, temp_ts,
                  video_path, slides, invoked, fetchlog, result, reply >>

NextClassify == ClassifyUrlType \/ ClassifySlideshow \/ ClassifyPreCheck
SpecClassify == InitClassify /\ [][NextClassify]_vars

(***************************************************************************)
(* user_storage.py and the save dialogue of bot.py.                        *)
(***************************************************************************)
others == << cls, network, clock, disk, wrote, pc, msg, mtype, url, caller, temp_ts, video_path,
             slides, invoked, fetchlog, result, reply >>

\* user_data[str(user_id)][name] = info: a dict keeps the place of a key it has
PutMedia(user_media, name, info) ==
  LET entry == [name |-> name, path |-> info.path, type |-> info.type]
      at == { i \in DOMAIN user_media : user_media[i].name = name }
  IN  IF at = {} THEN Append(user_media, entry)
      ELSE [i \in DOMAIN user_media |-> IF i \in at THEN entry ELSE user_media[i]]

\* user_storage.py 53-108: the store after save_media(user_id, name, source_path,
\* media_type) has returned True; `content` is what the source file holds
save_media(st, name, content, media_type) ==
  LET safe_name == sanitize_filename(name)
      filename == [name |-> safe_name, ext |-> ExtOf(media_type)]
  IN  [st EXCEPT
         !.files = { f \in @ : f.path # filename } \cup {[path |-> filename, content |-> content]},
         !.user_media = PutMedia(@, safe_name, [path |-> filename, type |-> media_type])]

\* user_storage.py 110-163: None, or the file found and its media type
retrieve_media(st, name) ==
  LET um == st.user_media
      exact == { i \in DOMAIN um : um[i].name = name }
      nocase == { i \in DOMAIN um : Lower(um[i].name) = Lower(name) }
      found == IF exact # {} THEN exact ELSE nocase
  IN  IF found = {} THEN None
      ELSE LET info == um[CHOOSE i \in found : \A j \in found : i <= j]
               at == { f \in st.files : f.path = info.path }
           IN  IF at = {} THEN None
               ELSE [content |-> (CHOOSE f \in at : TRUE).content, type |-> info.type]

Ended(how, media_id) == [how |-> how, media_id |-> media_id]

\* bot.py 307-315 (and 420): a media is sent with a Save button and put into the cache
SendMedia ==
  /\ Cardinality(store.sent) < MaxMedia
  /\ \E media_type \in MediaTypes :
       LET media_id == Cardinality(store.sent) + 1 IN
       store' = [store EXCEPT !.sent = @ \cup {[media_id |-> media_id, media_type |-> media_type]},
                              !.media_cache = @ \cup {media_id},
                              !.ended = Ended("sent", media_id)]
  /\ UNCHANGED others

\* bot.py 459-506: the Save button under a media the bot has sent; `gone`
\* says that the file of the media is no longer there
SaveButtonCallback ==
  /\ store.saves < MaxSaves
  /\ \E m \in store.sent, gone \in BOOLEAN :
       IF m.media_id \notin store.media_cache
       THEN store' = [store EXCEPT !.ended = Ended("not_cached", m.media_id)]
       ELSE IF gone
       THEN store' = [store EXCEPT !.media_cache = @ \ {m.media_id},
                                   !.ended = Ended("not_cached", m.media_id)]
       ELSE store' = [store EXCEPT
                        !.saves = @ + 1,
                        !.user_data_store = [media_type |-> m.media_type, content |-> m.media_id,
                                             media_id |-> m.media_id],
                        !.user_states = TRUE,
                        !.next_step = @ + 1,
                        !.ended = Ended("asked_name", m.media_id)]
  /\ UNCHANGED others

\* bot.py 569-579: cancel_save_handler
cancel_save_handler(st) ==
  [st EXCEPT !.user_data_store = None, !.user_states = FALSE, !.ended = Ended("cancelled", 0)]

\* save_media_name_handler leaving user_states as it is at its end
CleanUp_KeepState(st, success) ==
  [st EXCEPT !.media_cache = IF st.user_data_store # None
                             THEN @ \ {st.user_data_store.media_id} ELSE @,
             !.user_data_store = None]

\* bot.py 559-566: the end of save_media_name_handler
CleanUp(st, success) ==
  [st EXCEPT !.media_cache = IF st.user_data_store # None
                             THEN @ \ {st.user_data_store.media_id} ELSE @,
             !.user_data_store = None, !.user_states = FALSE]

\* bot.py 509-566: the next message of the user is taken as the name; `gone`
\* says that the file of the media is no longer there, `copied` that
\* save_media returned True
SaveMediaNameHandler ==
  /\ store.next_step > 0
  /\ \E text \in Texts, cancel \in BOOLEAN, gone \in BOOLEAN, copied \in BOOLEAN :
       LET media_name == Strip(text)
           taken == [store EXCEPT !.next_step = @ - 1]
           d == store.user_data_store
       IN  IF cancel
           THEN store' = cancel_save_handler(taken)
           ELSE IF ~store.user_states
           THEN store' = [taken EXCEPT !.ended = Ended("expired", 0)]
           ELSE IF media_name = <<>> \/ Len(media_name) > name_limit
           THEN store' = [store EXCEPT !.ended = Ended("invalid_name", 0)]
           ELSE IF d = None
           THEN store' = [taken EXCEPT !.user_states = FALSE, !.ended = Ended("expired", 0)]
           ELSE IF gone
           THEN store' = [taken EXCEPT !.user_data_store = None, !.user_states = FALSE,
                                       !.ended = Ended("file_missing", d.media_id)]
           ELSE IF ~copied
           THEN store' = [CleanUp(taken, FALSE)
                            EXCEPT !.said = <<>>, !.saved = None, !.asked = <<>>, !.got = None,
                                   !.ended = Ended("save_failed", d.media_id)]
           ELSE store' = [CleanUp(save_media(taken, sanitize_filename(media_name), d.content, d.media_type), TRUE)
                            EXCEPT !.said = media_name,
                                   !.saved = [content |-> d.content, type |-> d.media_type],
                                   !.asked = <<>>, !.got = None,
                                   !.ended = Ended("saved", d.media_id)]
  /\ UNCHANGED others

\* bot.py 582-591: /cancel when no handler waits for the next message
GeneralCancelCommand ==
  /\ store.next_step = 0
  /\ store' = IF store.user_states THEN cancel_save_handler(store)
              ELSE [store EXCEPT !.ended = Ended("nothing_to_cancel", 0)]
  /\ UNCHANGED others

\* bot.py 108-141: /my name
RetrieveCommand ==
  /\ \E text \in Texts :
       LET media_name == Strip(text) IN
       /\ media_name # <<>>
       /\ store' = [store EXCEPT !.asked = media_name, !.got = retrieve_media(store, media_name),
                                 !.ended = Ended("retrieved", 0)]
  /\ UNCHANGED others

InitSave == cls = None /\ network = "plain" /\ InitThreads
NextSave ==
  \/ SendMedia \/ SaveButtonCallback \/ SaveMediaNameHandler
  \/ GeneralCancelCommand \/ RetrieveCommand
SpecSave == InitSave /\ [][NextSave]_vars

\* the handlers of the save dialogue alone
NextDialogue == SendMedia \/ SaveButtonCallback \/ SaveMediaNameHandler \/ GeneralCancelCommand
SpecDialogue == InitSave /\ [][NextDialogue]_vars

(***************************************************************************)
(* media_downloader.py 409-658: the URLs download_tiktok_slideshow takes   *)
(* out of the page.  A URL text is known by how it begins (http:// or      *)
(* https://, the same with escaped separators, //, escaped //, anything    *)
(* else) and by whether a later separator of it is escaped.  A find is a   *)
(* URL text at a place of the page that one extraction method reads.       *)
(***************************************************************************)
MaxFinds == 2

UrlText(lead, tailesc) == [lead |-> lead, tailesc |-> tailesc]
Find(method, text) == [method |-> method, text |-> text]

\* the extraction methods in the order the code applies them
ImageMethods == <<"meta", "json", "img", "style", "pattern", "generic", "api">>
AudioMethods == <<"meta", "audio_tag", "regex_url", "regex_key">>

\* attribute values of the HTML
AttributeTexts == { UrlText(l, FALSE) : l \in {"http", "slashes", "path"} }
\* string literals of the JSON embedded in a script, as they stand in the page
EmbeddedTexts == { UrlText(l, FALSE) : l \in {"http", "http_esc", "slashes_esc", "path"} }
\* what the regex https?://[^\s'")]+\.(ext) matches
LiteralTexts == { UrlText("http", e) : e \in BOOLEAN }

ImageFinds ==
  { Find(m, t) : m \in {"meta", "img", "style", "api"}, t \in AttributeTexts }
    \cup { Find("json", t) : t \in EmbeddedTexts \ {UrlText("http", FALSE)} }
    \cup { Find("pattern", t) : t \in EmbeddedTexts }
    \cup { Find("generic", t) : t \in LiteralTexts }

AudioFinds ==
  { Find(m, t) : m \in {"meta", "audio_tag"}, t \in AttributeTexts }
    \cup { Find("regex_url", t) : t \in LiteralTexts }
    \cup { Find("regex_key", t) : t \in EmbeddedTexts }

\* json.loads, and .replace('\\u002F', '/').replace('\\/', '/').replace('\\', '')
Unescape(t) ==
  UrlText(CASE t.lead = "http_esc" -> "http" [] t.lead = "slashes_esc" -> "slashes" [] OTHER -> t.lead,
          FALSE)
\* if image_url.startswith('//'): image_url = 'https:' + image_url
Complete(t) == IF t.lead = "slashes" THEN UrlText("http", t.tailesc) ELSE t
\* text.startswith('http')
StartsWithHttp(t) == t.lead \in {"http", "http_esc"}

\* what one method makes of one find: the URLs it would append
ImageUrlOf(f) ==
  CASE f.method = "meta"    -> << f.text >>
    [] f.method = "json"    -> IF StartsWithHttp(Unescape(f.text)) THEN << Unescape(f.text) >> ELSE <<>>
    [] f.method = "img"     -> IF StartsWithHttp(f.text) THEN << f.text >> ELSE <<>>
    [] f.method = "style"   -> IF StartsWithHttp(f.text) THEN << f.text >> ELSE <<>>
    [] f.method = "pattern" -> IF StartsWithHttp(Complete(Unescape(f.text)))
                               THEN << Complete(Unescape(f.text)) >> ELSE <<>>
    [] f.method = "generic" -> << f.text >>
    [] OTHER                -> << f.text >>

\* `if url not in image_urls: image_urls.append(url)` over the finds of one method
RECURSIVE AppendFinds(_, _, _)
AppendFinds(image_urls, finds, method) ==
  IF finds = <<>> THEN image_urls
  ELSE LET f == Head(finds)
           got == IF f.method = method THEN ImageUrlOf(f) ELSE <<>>
           next == IF got # <<>> /\ ~(\E i \in DOMAIN image_urls : image_urls[i] = got[1])
                   THEN image_urls \o got ELSE image_urls
       IN  AppendFinds(next, Tail(finds), method)

\* lines 409-608: methods 1 to 4 always, then each further method only while
\* no image URL has been found
ExtractImageUrls(finds) ==
  LET m1 == AppendFinds(<<>>, finds, "meta")
      m2 == AppendFinds(m1, finds, "json")
      m3 == AppendFinds(m2, finds, "img")
      m4 == AppendFinds(m3, finds, "style")
      m5 == IF m4 = <<>> THEN AppendFinds(m4, finds, "pattern") ELSE m4
      m6 == IF m5 = <<>> THEN AppendFinds(m5, finds, "generic") ELSE m5
  IN  IF m6 = <<>> THEN AppendFinds(m6, finds, "api") ELSE m6

\* lines 610-653: the audio URL
ExtractAudioUrl(a) ==
  IF a = None THEN None
  ELSE IF a.method = "audio_tag" /\ ~StartsWithHttp(a.text) THEN None
  ELSE a.text

Extracted(finds, audio, fn, image_urls, audio_url) ==
  [finds |-> finds, audio |-> audio, fn |-> fn, image_urls |-> image_urls, audio_url |-> audio_url]

InitExtract ==
  /\ cls \in { Extracted(finds, audio, "none", <<>>, None) :
                 finds \in SeqsUpTo(ImageFinds, MaxFinds), audio \in AudioFinds \cup {None} }
  /\ network = "any"
  /\ InitThreads

\* lines 409-653 applied to a page
ExtractSlideshowUrls ==
  /\ cls.fn = "none"
  /\ cls' = Extracted(cls.finds, cls.audio, "download_tiktok_slideshow",
                      ExtractImageUrls(cls.finds), ExtractAudioUrl(cls.audio))
  /\ UNCHANGED << store, network, clock, disk, wrote, pc, msg, mtype, url, caller, temp_ts,
                  video_path, slides, invoked, fetchlog, result, reply >>

NextExtract == ExtractSlideshowUrls
SpecExtract == InitExtract /\ [][NextExtract]_vars

(***************************************************************************)
(* user_storage.py: save_media and delete_media called on the handler      *)
(* threads of the bot.  A call is three steps: its start (save_media       *)
(* copies the file), the read of the data file into the local user_data,   *)
(* and the update of the local user_data with the write of the data file.  *)
(***************************************************************************)
StoredNames == { <<"a">>, <<"b">> }

StorageCall(fn, name, at, user_data) == [fn |-> fn, name |-> name, at |-> at, user_data |-> user_data]

\* the name of user_media that delete_media and retrieve_media take for `name`
FoundName(user_media, name) ==
  LET exact == { i \in DOMAIN user_media : user_media[i].name = name }
      nocase == { i \in DOMAIN user_media : Lower(user_media[i].name) = Lower(name) }
      found == IF exact # {} THEN exact ELSE nocase
  IN  IF found = {} THEN <<>>
      ELSE user_media[CHOOSE i \in found : \A j \in found : i <= j].name

\* del user_data[str(user_id)][found_name]
DelMedia(user_media, found_name) == SelectSeq(user_media, LAMBDA e : e.name # found_name)

\* save_media 53-84, delete_media 193-203: the call begins
BeginCall(r) ==
  /\ store.op[r] = None
  /\ Len(store.log) + Cardinality({ q \in Threads : store.op[q] # None }) < MaxCalls
  /\ \E fn \in {"save", "delete"}, name \in StoredNames :
       store' = [store EXCEPT
                   !.op[r] = StorageCall(fn, name, "read", <<>>),
                   !.files = IF fn = "save"
                             THEN { f \in @ : f.path # [name |-> name, ext |-> "mp4"] }
                                    \cup {[path |-> [name |-> name, ext |-> "mp4"], content |-> 1]}
                             ELSE @]
  /\ UNCHANGED others

\* save_media 87, delete_media 205: user_data = _get_user_data()
ReadData(r) ==
  /\ store.op[r] # None /\ store.op[r].at = "read"
  /\ store' = [store EXCEPT !.op[r].at = "write", !.op[r].user_data = store.user_media]
  /\ UNCHANGED others

\* save_media 89-104, delete_media 207-250: the update and _save_user_data(user_data)
WriteData(r) ==
  /\ store.op[r] # None /\ store.op[r].at = "write"
  /\ LET c == store.op[r]
         found_name == FoundName(c.user_data, c.name)
     IN  IF c.fn = "save"
         THEN store' = [store EXCEPT
                          !.user_media = PutMedia(c.user_data, c.name,
                                                  [path |-> [name |-> c.name, ext |-> "mp4"], type |-> "video"]),
                          !.log = Append(@, [fn |-> "save", name |-> c.name]),
                          !.op[r] = None]
         ELSE IF found_name = <<>>
         THEN store' = [store EXCEPT !.op[r] = None]
         ELSE store' = [store EXCEPT
                          !.files = { f \in @ : f.path.name # found_name },
                          !.user_media = DelMedia(c.user_data, found_name),
                          !.log = Append(@, [fn |-> "delete", name |-> found_name]),
                          !.op[r] = None]
  /\ UNCHANGED others

InitStorage == cls = None /\ network = "plain" /\ InitThreads
NextStorage == \E r \in Threads : BeginCall(r) \/ ReadData(r) \/ WriteData(r)
SpecStorage == InitStorage /\ [][NextStorage]_vars

(***************************************************************************)
(* The extension each fetching routine gives the local file, as a function *)
(* of the declared content-type and of the extension the remote URL names. *)
(***************************************************************************)
FetchRoutines == {"slideshow_image", "slideshow_audio", "pinterest_image", "pinterest_video"}
ContentTypes ==
  { "image/jpeg", "image/png", "image/gif", "image/webp", "video/mp4", "video/webm",
    "audio/mpeg", "audio/mp4", "text/html", "absent" }
\* the extensions the URL of an asset of the routine's kind may name
UrlExtensions(routine) ==
  CASE routine = "slideshow_audio" -> { "mp3", "m4a", "none" }
    [] routine = "pinterest_video" -> { "mp4", "webm", "mov", "none" }
    [] OTHER                       -> { "jpg", "png", "webp", "none" }

\* media_downloader.py 664, 681; pinterest_extractor.py 132-147, 311-324
LocalExtension(routine, ct, in_url) ==
  CASE routine = "slideshow_image" -> SlideImagePath(0, 0).ext
    [] routine = "slideshow_audio" -> SlideAudioPath(0).ext
    [] routine = "pinterest_image" -> PinImageExt(ct)
    [] OTHER                       -> PinVideoExt(in_url)

Named(routine, ct, in_url, fn, ext) ==
  [routine |-> routine, ct |-> ct, in_url |-> in_url, fn |-> fn, ext |-> ext]

InitExtension ==
  /\ cls \in UNION { { Named(f, ct, e, "none", "none") : ct \in ContentTypes, e \in UrlExtensions(f) } :
                      f \in FetchRoutines }
  /\ network = "any"
  /\ InitThreads

NameLocalFile ==
  /\ cls.fn = "none"
  /\ cls' = Named(cls.routine, cls.ct, cls.in_url, "named",
                  LocalExtension(cls.routine, cls.ct, cls.in_url))
  /\ UNCHANGED << store, network, clock, disk, wrote, pc, msg, mtype, url, caller, temp_ts,
                  video_path, slides, invoked, fetchlog, result, reply >>

NextExtension == NameLocalFile
SpecExtension == InitExtension /\ [][NextExtension]_vars

(***************************************************************************)
(* bot.py 161-169: the filter of handle_url_message and the classification *)
(* of the message it lets through.  A message text is a URL, with or       *)
(* without words in front of it.                                           *)
(***************************************************************************)
MessageTexts == [lead : BOOLEAN, url : URLs]

\* utils.py 27-35: re.search(url_pattern, text) finds the URL wherever it stands
UrlInText(text) == text.url

\* urllib.parse.urlparse(text): a text that does not begin with the scheme
\* has an empty netloc and is all path and query
ParsedText(text) == IF text.lead THEN [text.url EXCEPT !.host = <<>>] ELSE text.url

Handled(text, fn, head, accepted, out) ==
  [text |-> text, fn |-> fn, head |-> head, accepted |-> accepted, out |-> out]

InitMessage ==
  /\ cls \in { Handled(text, "none", NoHead, FALSE, None) : text \in MessageTexts }
  /\ network = "any"
  /\ InitThreads

\* bot.py 161-168: is_valid_url(message.text), then get_url_type(message.text)
FilterAndClassify ==
  /\ cls.fn = "none"
  /\ \E head \in HeadOutcomes :
       cls' = Handled(cls.text, "handle_url_message", head, is_valid_url(UrlInText(cls.text)),
                      get_url_type(ParsedText(cls.text), head))
  /\ UNCHANGED << store, network, clock, disk, wrote, pc, msg, mtype, url, caller, temp_ts,
                  video_path, slides, invoked, fetchlog, result, reply >>

NextMessage == FilterAndClassify
SpecMessage == InitMessage /\ [][NextMessage]_vars

(***************************************************************************)
(* user_storage.py: save_media, delete_media, retrieve_media and           *)
(* get_user_media_list called one after the other for one user.            *)
(***************************************************************************)
\* user_storage.py 165-191: the (name, type) pairs in the order of the dict
get_user_media_list(st) ==
  [i \in DOMAIN st.user_media |-> [name |-> st.user_media[i].name, type |-> st.user_media[i].type]]

\* user_storage.py 193-254 with the entry kept in the data file
delete_media_KeepsEntry(st, name) ==
  LET found_name == FoundName(st.user_media, name)
      info == CHOOSE e \in { st.user_media[i] : i \in DOMAIN st.user_media } : e.name = found_name
  IN  IF found_name = <<>> THEN st
      ELSE [st EXCEPT !.files = { f \in @ : f.path # info.path }]

\* user_storage.py 193-254: the store after delete_media(user_id, name); the
\* call returns True exactly when it found a name
delete_media(st, name) ==
  LET found_name == FoundName(st.user_media, name)
      info == CHOOSE e \in { st.user_media[i] : i \in DOMAIN st.user_media } : e.name = found_name
  IN  IF found_name = <<>> THEN st
      ELSE [st EXCEPT !.files = { f \in @ : f.path # info.path },
                      !.user_media = DelMedia(@, found_name)]

\* save_media(user_id, name, source_path, "video") returns True
SaveMediaCall ==
  /\ Len(store.log) < MaxCalls
  /\ \E text \in Texts :
       store' = [save_media(store, text, 1, "video") EXCEPT
                   !.log = Append(@, [fn |-> "save", name |-> sanitize_filename(text)]),
                   !.asked = <<>>, !.got = None, !.ended = Ended("saved", 0)]
  /\ UNCHANGED others

\* bot.py 144-159: /delete name
DeleteCommand ==
  /\ Len(store.log) < MaxCalls
  /\ \E text \in Texts :
       LET media_name == Strip(text)
           success == FoundName(store.user_media, media_name) # <<>>
       IN  /\ media_name # <<>>
           /\ store' = [delete_media(store, media_name) EXCEPT
                          !.log = IF success THEN Append(@, [fn |-> "delete", name |-> media_name])
                                  ELSE @,
                          !.asked = <<>>, !.got = None,
                          !.ended = Ended(IF success THEN "deleted" ELSE "not_found", 0)]
  /\ UNCHANGED others

InitDelete == cls = None /\ network = "plain" /\ InitThreads
NextDelete == SaveMediaCall \/ DeleteCommand \/ RetrieveCommand
SpecDelete == InitDelete /\ [][NextDelete]_vars

(***************************************************************************)
(* Properties.                                                             *)
(***************************************************************************)
Chain == <<"generic", "alternate", "scrape", "savefrom">>

Names(log) == [i \in DOMAIN log |-> log[i].name]

\* the thread has run download_video's strategies on a TikTok URL
InChain(r) ==
  /\ invoked[r] # <<>>
  /\ invoked[r][1].name = "generic"
  /\ Contains(msg[r].host, <<"tiktok">>)

\* the download routine of the thread has returned
Returned(r) == pc[r] \in {"deliver", "done"}

\* the assets of the value returned, each with the kind it is returned as
Assets(r) ==
  IF result[r] = None THEN {}
  ELSE IF result[r].type = "file" THEN { [path |-> result[r].path, kind |-> result[r].kind] }
  ELSE { [path |-> result[r].images[i], kind |-> "image"] : i \in DOMAIN result[r].images }
         \cup (IF result[r].audio = None THEN {}
               ELSE { [path |-> result[r].audio, kind |-> "audio"] })

\* C1: for a TikTok video, download_video fails only when the whole chain has
\* been tried: no failure of an earlier strategy ends the request while a later
\* strategy, which may succeed, has not been invoked.
C1_FailsOnlyWhenChainExhausted ==
  \A r \in Threads :
    InChain(r) /\ Returned(r) /\ result[r] = None => Names(invoked[r]) = Chain

\* C2: the strategies of download_video for a TikTok video are invoked in the
\* order generic, alternate, scrape, savefrom: when the Kth entry of the log is
\* a success, the log up to it is the first K strategies of the chain, each once.
C2_StrategiesInFixedOrder ==
  \A r \in Threads :
    InChain(r) =>
      /\ Len(invoked[r]) <= Len(Chain)
      /\ Names(invoked[r]) = SubSeq(Chain, 1, Len(invoked[r]))

C2_Witness ==
  \E r \in Threads :
    /\ InChain(r) /\ Len(invoked[r]) = 3
    /\ ~invoked[r][1].ok /\ ~invoked[r][2].ok /\ invoked[r][3].ok
    /\ Returned(r) /\ result[r] # None

C3_WitnessDirect ==
  \E r \in Threads :
    /\ Names(invoked[r]) = <<"snaptik", "tikmate">> /\ invoked[r][2].ok /\ pc[r] = "done"

SupportedHosts ==
  { <<"www", "tiktok", "com">>, <<"vm", "tiktok", "com">>, <<"vt", "tiktok", "com">>,
    <<"m", "tiktok", "com">>, <<"www", "instagram", "com">>, <<"www", "youtube", "com">>,
    <<"youtu", "be">>, <<"www", "pinterest", "com">>, <<"pin", "it">> }

UnsupportedPlatform == [error |-> "UnsupportedPlatform"]

C5_PhotoMarkerIsSlideshow ==
  (cls # None /\ cls.fn # "none"
     /\ cls.url.host \in TikTokHosts /\ cls.url.pathmark = "photo") =>
    IF cls.fn = "get_url_type" THEN cls.out.kind = "slideshow" ELSE cls.out.slideshow

\* C6: download_tiktok_slideshow returns a bundle exactly when at least one
\* image fetch completed, whether the audio was fetched or not, and the bundle
\* holds one path per fetched image; the bot never finds it empty.
FetchedImages(r) == { i \in DOMAIN fetchlog[r] : fetchlog[r][i] }

SlideshowOver(r) == fetchlog[r] # <<>> /\ pc[r] \notin {"ss_audio", "hung"}

IsBundle(v) == v # None /\ v.type = "slideshow"

C6_BundleIffImageFetched ==
  \A r \in Threads :
    /\ IsBundle(result[r]) =>
         /\ Len(result[r].images) >= 1
         /\ Len(result[r].images) = Cardinality(FetchedImages(r))
    /\ SlideshowOver(r) => (IsBundle(result[r]) <=> FetchedImages(r) # {})
    /\ reply[r] # "no_images"

C6_Witness ==
  \E r \in Threads :
    /\ IsBundle(result[r]) /\ result[r].audio = None /\ Len(result[r].images) >= 1
    /\ Cardinality(FetchedImages(r)) < Len(fetchlog[r])
    /\ reply[r] = "slideshow_sent"

\* C7: every asset returned has the kind of the content-type class the server
\* declared for it.
C7_KindMatchesContentType ==
  \A r \in Threads :
    Returned(r) =>
      \A a \in Assets(r) : Exists(disk, a.path) => FileAt(disk, a.path).ctype = a.kind

\* C8: every path returned names a file that exists and is not empty.
C8_ReturnedFileExistsNonEmpty ==
  \A r \in Threads :
    Returned(r) =>
      \A a \in Assets(r) : Exists(disk, a.path) /\ FileAt(disk, a.path).size # "empty"

\* C9: when the request has ended, no file written by a fetch that failed, or
\* that failed validation, is left in the scratch directories.
C9_NoFileOfFailedFetchLeft ==
  pc["t1"] = "done" => \A f \in disk : ~f.bad

\* C10: two requests never write to the same path.
C10_RequestsWriteDistinctPaths ==
  \A a \in wrote, b \in wrote : a.req # b.req => a.path # b.path

\* C11: every request that has begun returns: the thread reaches its end,
\* whatever the servers do.
C11_EveryRequestReturns == (pc["t1"] # "idle") ~> (pc["t1"] = "done")

\* a step by which request r starts a strategy of download_video's chain
\* after an earlier one has failed
StartsFallback(r) ==
  /\ invoked[r] # <<>>
  /\ invoked[r][1].name = "generic"
  /\ Len(invoked'[r]) = Len(invoked[r]) + 1

\* the time download_video has spent on its strategies: line 840 reads the
\* clock just before the first one
Elapsed(r) == clock - temp_ts[r]

\* C12: there is a cumulative deadline, shorter than the time the model lets
\* pass, after which no remaining strategy of the chain is started.
C12_NoStrategyAfterDeadline ==
  [][\A r \in Threads : StartsFallback(r) => Elapsed(r) < MaxClock]_vars

\* the kind of the value the download routine returned
ResultKind(v) == IF IsBundle(v) THEN "slideshow" ELSE v.kind

PathsOf(paths) == { paths[k] : k \in DOMAIN paths }

\* the paths of the images whose fetch completed
FetchedPaths(r) == { SlideImagePath(temp_ts[r], i - 1) : i \in FetchedImages(r) }

\* C14: a failed image fetch is passed over and the later images are still
\* fetched: the paths kept are those of all the fetches that completed, before
\* and after a failure; a bundle is returned exactly when there is one, and its
\* audio is None unless the audio fetch completed.
C14_FailedFetchSkipped ==
  \A r \in Threads :
    /\ pc[r] = "ss_audio" =>
         /\ Len(fetchlog[r]) = Len(slides[r].image_urls)
         /\ PathsOf(slides[r].image_paths) = FetchedPaths(r)
    /\ IsBundle(result[r]) =>
         /\ PathsOf(result[r].images) = FetchedPaths(r)
         /\ result[r].audio # None =>
              /\ result[r].audio = SlideAudioPath(temp_ts[r])
              /\ Exists(disk, result[r].audio) /\ ~FileAt(disk, result[r].audio).bad
    /\ SlideshowOver(r) /\ FetchedImages(r) # {} => IsBundle(result[r])

\* the first image failed, the second was fetched, the audio fetch broke
C14_Witness ==
  \E r \in Threads :
    /\ Len(fetchlog[r]) = 2 /\ ~fetchlog[r][1] /\ fetchlog[r][2]
    /\ IsBundle(result[r]) /\ result[r].audio = None
    /\ result[r].images = << SlideImagePath(temp_ts[r], 1) >>
    /\ Exists(disk, SlideAudioPath(temp_ts[r])) /\ FileAt(disk, SlideAudioPath(temp_ts[r])).bad

\* C15: the images of a bundle are in the order of discovery: the position of
\* an image's URL in image_urls, which names its file, grows along the result.
C15_ImagesInDiscoveryOrder ==
  \A r \in Threads :
    IsBundle(result[r]) =>
      \A k, l \in DOMAIN result[r].images :
        k < l => result[r].images[k].idx < result[r].images[l].idx

\* three URLs were discovered, the fetch of the second failed
C15_Witness ==
  \E r \in Threads :
    /\ IsBundle(result[r])
    /\ fetchlog[r] = <<TRUE, FALSE, TRUE>>
    /\ Len(result[r].images) = 2
    /\ result[r].images[1].idx = 0 /\ result[r].images[2].idx = 2

\* the download threads that have been started and have not ended
InProgress == { r \in Threads : mtype[r] # None /\ pc[r] # "done" }

\* C16: the requests in progress at one time stay below a fixed bound, here
\* any bound smaller than the number of users who send a URL: a message that
\* arrives when that many are in progress is not started.
C16_InProgressBounded == Cardinality(InProgress) < Cardinality(Threads)

\* the user has been sent the media or a failure notice
Answered(r) == reply[r] \notin {"none", "nothing"}

\* C17: when the download thread of a message has ended, the user has been
\* sent the media or a failure notice.
C17_EveryMessageAnswered ==
  \A r \in Threads : mtype[r] # None /\ pc[r] = "done" => Answered(r)

\* C18: after the dialogue has answered 'saved as N', retrieve_media for N
\* gives the file that was saved and its media type.
C18_SavedNameRetrieves ==
  store.said # <<>> /\ store.asked = store.said => store.got = store.saved

\* a step in which download_video examines a TikTok URL for a slideshow
\* (media_downloader.py 735-757: the pre-check and is_tiktok_slideshow)
RunsDetection(r) ==
  /\ pc[r] = "dv_begin" /\ pc'[r] # "dv_begin"
  /\ Contains(msg[r].host, <<"tiktok">>)

\* C19 as claimed: once get_url_type has classified the URL of a request, no
\* later step of the request runs slideshow detection on it.
C19_NoDetectionAfterClassification ==
  [][\A r \in Threads : mtype[r] # None => ~RunsDetection(r)]_vars

\* C19 as amended: a URL classified slideshow or as another platform's is
\* not examined again, while a TikTok URL classified video is examined once
\* more by download_video, before its first strategy and not a second time.
C19_DetectionOnceMoreForTikTokVideo ==
  [][\A r \in Threads :
       RunsDetection(r) =>
         /\ mtype[r] # None
         /\ mtype[r].platform = "tiktok" /\ mtype[r].kind = "video"
         /\ invoked[r] = <<>> /\ caller[r] = "none"]_vars

C19_Witness ==
  \E r \in Threads :
    /\ mtype[r] # None /\ mtype[r].platform = "tiktok" /\ mtype[r].kind = "video"
    /\ pc[r] = "dv_options" /\ caller[r] = "none" /\ invoked[r] = <<>>

\* the URL of the request was taken for a slideshow: by get_url_type
\* ("bot"), by download_video's pre-check or by its is_tiktok_slideshow call
DetectedSlideshow(r) == caller[r] \in {"bot", "precheck", "detect"}

\* C20 as claimed: for a URL detected as a slideshow only the slideshow
\* extractor runs; no video strategy is invoked, and when the extraction
\* fails the request ends with a failure notice.
C20_OnlySlideshowExtractor ==
  \A r \in Threads :
    DetectedSlideshow(r) =>
      /\ invoked[r] = <<>>
      /\ pc[r] = "done" /\ ~IsBundle(result[r]) => reply[r] \in {"slideshow_failed", "failed"}

\* C20 as amended: for a URL that get_url_type or download_video's pre-check
\* took for a slideshow only the slideshow extractor runs, and a failed
\* extraction ends the request with a failure notice; a URL that only
\* is_tiktok_slideshow took for a slideshow goes on to the video strategies
\* when the extraction fails.
C20_OnlySlideshowExtractorUnlessDetectedLate ==
  \A r \in Threads :
    caller[r] \in {"bot", "precheck"} =>
      /\ invoked[r] = <<>>
      /\ pc[r] = "done" /\ ~IsBundle(result[r]) => reply[r] \in {"slideshow_failed", "failed"}

C20_Witness ==
  \E r \in Threads :
    /\ caller[r] = "precheck" /\ pc[r] = "done"
    /\ result[r] = None /\ reply[r] = "failed" /\ invoked[r] = <<>>

\* the redirect of lines 62-76 was tried and did not give a 200
HeadFailed(u, head) ==
  /\ \/ Contains(u.host, <<"vm", "tiktok", "com">>)
     \/ Contains(u.host, <<"vt", "tiktok", "com">>)
     \/ ~Contains(u.host, <<"www", "tiktok", "com">>)
  /\ head.status # "200"
\* the GET of line 121 raised or gave another status than 200
PageFailed(page) == page \in {"error", "non200"}
\* the URL holds none of the markers of lines 89-109
NoOwnMarker(u) == u.pathmark # "photo" /\ u.aweme # "150" /\ ~PicCntSignal(u)

\* C21 as claimed: when the redirect or the page fetch fails and the URL has
\* no slideshow marker of its own, is_tiktok_slideshow answers False and
\* download_video goes on to the video strategies.
C21_FailedFetchMeansVideo ==
  (/\ cls # None /\ cls.fn = "is_tiktok_slideshow" /\ cls.url.host \in TikTokHosts
   /\ NoOwnMarker(cls.url)
   /\ HeadFailed(cls.url, cls.head) \/ PageFailed(cls.page)) =>
    /\ ~cls.out.slideshow
    /\ DetectBranch(cls.url, cls.head, cls.page) = "dv_options"

\* C21 as amended: a fetch that fails only drops its own signal.  When the
\* page fetch fails and the URL that is examined (the resolved one, or the
\* given one when the redirect failed) has no marker the answer is False and
\* download_video goes on to the video strategies; when the redirect fails
\* and the given URL has no marker the answer is what the page content says.
C21_FailedFetchDropsItsSignal ==
  (cls # None /\ cls.fn = "is_tiktok_slideshow" /\ cls.url.host \in TikTokHosts) =>
    /\ (PageFailed(cls.page) /\ NoOwnMarker(SlideshowCheckedUrl(cls.url, cls.head))) =>
          /\ ~cls.out.slideshow
          /\ DetectBranch(cls.url, cls.head, cls.page) = "dv_options"
    /\ (HeadFailed(cls.url, cls.head) /\ NoOwnMarker(cls.url)) =>
          /\ cls.out.slideshow <=> cls.page \notin {"error", "non200", "plain"}
          /\ DetectBranch(cls.url, cls.head, cls.page) =
               IF cls.out.slideshow THEN "ss_begin" ELSE "dv_options"

C21_Witness ==
  /\ cls # None /\ cls.fn = "is_tiktok_slideshow"
  /\ cls.url.host = <<"vm", "tiktok", "com">> /\ NoOwnMarker(cls.url)
  /\ cls.head.status = "error" /\ cls.page = "error"
  /\ ~cls.out.slideshow

\* the text is the decimal form of a number above 0
NumericPositive(text) == ~PyIntRaises(text) /\ PyInt(text) > 0
\* the text is present and is either a number above 0 or no number at all
PositiveOrNotANumber(text) == text # "absent" /\ (PyIntRaises(text) \/ PyInt(text) > 0)
\* the URL holds no slideshow signal other than, possibly, pic_cnt
OnlyPicCnt(u) == u.pathmark # "photo" /\ u.aweme # "150" /\ ~(u.share /\ HasKeyword(u))
\* the pic_cnt of the URL a short link resolved to, as get_url_type sees it
ResolvedPicCnt(u, head) ==
  IF /\ Contains(u.host, <<"vm", "tiktok", "com">>) \/ Contains(u.host, <<"vt", "tiktok", "com">>)
     /\ head.status = "200"
  THEN head.url.pic_cnt ELSE "absent"
\* no signal other than pic_cnt reaches the routine recorded in cls
PicCntIsOnlySignal ==
  /\ cls # None /\ cls.fn \in {"get_url_type", "is_tiktok_slideshow"}
  /\ cls.url.host \in TikTokHosts
  /\ OnlyPicCnt(cls.url)
  /\ cls.head.status = "200" => OnlyPicCnt(cls.head.url)
  /\ cls.page \in {"error", "non200", "plain"}

\* C22 as claimed: with pic_cnt the only signal the URL is classified
\* Slideshow exactly when the value of pic_cnt is a number above 0, in
\* get_url_type (given and resolved URL) and in is_tiktok_slideshow.
C22_PicCntNumericPositive ==
  PicCntIsOnlySignal =>
    IF cls.fn = "get_url_type"
    THEN cls.out.kind = "slideshow" <=>
           \/ NumericPositive(cls.url.pic_cnt)
           \/ NumericPositive(ResolvedPicCnt(cls.url, cls.head))
    ELSE cls.out.slideshow <=>
           NumericPositive(SlideshowCheckedUrl(cls.url, cls.head).pic_cnt)

\* C22 as amended: the given URL of get_url_type and the URL examined by
\* is_tiktok_slideshow yield Slideshow when pic_cnt is a number above 0 or
\* is not a number; the resolved URL of get_url_type yields Slideshow when
\* pic_cnt is any text other than '0'.
C22_PicCntPositiveOrNotANumber ==
  PicCntIsOnlySignal =>
    IF cls.fn = "get_url_type"
    THEN cls.out.kind = "slideshow" <=>
           \/ PositiveOrNotANumber(cls.url.pic_cnt)
           \/ ResolvedPicCnt(cls.url, cls.head) \notin {"absent", "0"}
    ELSE cls.out.slideshow <=>
           PositiveOrNotANumber(SlideshowCheckedUrl(cls.url, cls.head).pic_cnt)

C22_Witness ==
  /\ PicCntIsOnlySignal /\ cls.fn = "get_url_type"
  /\ cls.url.pic_cnt = "abc" /\ cls.out.kind = "slideshow"

\* the hosts of the short links and the platform each redirects within
ShortLinkTo(u, target) ==
  \/ /\ u.host \in {<<"vm", "tiktok", "com">>, <<"vt", "tiktok", "com">>}
     /\ target.host = <<"www", "tiktok", "com">>
  \/ /\ u.host = <<"pin", "it">>
     /\ target.host = <<"www", "pinterest", "com">>

\* C23: a short link whose redirect resolves gets from get_url_type the
\* platform and the kind that the long URL it resolves to gets.
C23_ShortLinkClassifiedAsTarget ==
  (/\ cls # None /\ cls.fn = "get_url_type"
   /\ cls.head.status = "200" /\ ShortLinkTo(cls.url, cls.head.url)) =>
    cls.out = get_url_type(cls.head.url, NoHead)

\* the URL text begins with http and holds no escaped separator
AbsoluteUnescaped(t) == t.lead = "http" /\ ~t.tailesc
\* the find is a protocol-relative URL at a place a method reads on every page
ProtocolRelativeFind(f) ==
  /\ f.method \in {"meta", "json", "img", "style"}
  /\ Unescape(f.text).lead = "slashes"

\* C24: every image and audio URL handed to requests.get by the slideshow
\* extractor begins with http and has no escaped separator, and a
\* protocol-relative URL found in the page is among them, completed to https.
C24_DownloadUrlsAbsoluteUnescaped ==
  (cls # None /\ cls.fn = "download_tiktok_slideshow") =>
    /\ \A i \in DOMAIN cls.image_urls : AbsoluteUnescaped(cls.image_urls[i])
    /\ cls.audio_url # None => AbsoluteUnescaped(cls.audio_url)
    /\ \A k \in DOMAIN cls.finds :
         ProtocolRelativeFind(cls.finds[k]) =>
           \E i \in DOMAIN cls.image_urls : cls.image_urls[i] = UrlText("http", FALSE)

\* the extension a content-type names, "none" for a type that is not known
ExtensionOfType(ct) ==
  CASE ct = "image/jpeg" -> "jpg"  [] ct = "image/png" -> "png"
    [] ct = "image/gif"  -> "gif"  [] ct = "image/webp" -> "webp"
    [] ct = "video/mp4"  -> "mp4"  [] ct = "video/webm" -> "webm"
    [] ct = "audio/mpeg" -> "mp3"  [] ct = "audio/mp4"  -> "m4a"
    [] OTHER -> "none"
\* the default extension of the kind a routine expects
DefaultExtension(routine) ==
  CASE routine = "slideshow_audio" -> "mp3"
    [] routine = "pinterest_video" -> "mp4"
    [] OTHER -> "jpg"

\* C25: the local file of every fetched asset has the extension the declared
\* content-type names when that is a known type, otherwise the extension of
\* the remote URL, otherwise the default of the expected kind.
C25_ExtensionFromTypeThenUrlThenDefault ==
  (cls # None /\ cls.fn = "named") =>
    cls.ext = IF ExtensionOfType(cls.ct) # "none" THEN ExtensionOfType(cls.ct)
              ELSE IF cls.in_url # "none" THEN cls.in_url
              ELSE DefaultExtension(cls.routine)

\* the last call on the name that returned True
LastCallOn(name) ==
  LET at == { i \in DOMAIN store.log : store.log[i].name = name }
  IN  IF at = {} THEN "none" ELSE store.log[CHOOSE i \in at : \A j \in at : j <= i].fn

\* C26: once the concurrent calls of save_media and delete_media have all
\* returned, every name whose last call was a save has its entry in the data
\* file and every name whose last call was a delete has none.
C26_NoUpdateLost ==
  (\A r \in Threads : store.op[r] = None) =>
    \A name \in StoredNames :
      /\ LastCallOn(name) = "save" => \E i \in DOMAIN store.user_media : store.user_media[i].name = name
      /\ LastCallOn(name) = "delete" => ~\E i \in DOMAIN store.user_media : store.user_media[i].name = name

\* C27: when save_media has failed in the save dialogue the media is still
\* in the user's media cache.
C27_FailedSaveKeepsCacheEntry ==
  store.ended.how = "save_failed" => store.ended.media_id \in store.media_cache

C29_AcceptedMessageHasPlatform ==
  (cls # None /\ cls.fn = "handle_url_message" /\ cls.accepted) =>
    cls.out.platform # "unknown"

\* the names N for which delete_media(user, N) has returned True with nothing
\* saved under N since
DeletedSince ==
  { store.log[i].name : i \in { i \in DOMAIN store.log :
      /\ store.log[i].fn = "delete"
      /\ \A j \in DOMAIN store.log :
           j > i => ~(store.log[j].fn = "save" /\ store.log[j].name = store.log[i].name) } }

SavedIgnoringCase(N) ==
  \E i \in DOMAIN store.user_media : Lower(store.user_media[i].name) = Lower(N)

\* C30 as claimed: after delete_media(user, N) has returned True and until
\* something is saved under N again, retrieve_media(user, N) returns None and
\* the media list holds no entry that N retrieves, whatever names were saved
\* before, names that differ from N only in letter case included.
C30_DeletedNameRetrievesNothing ==
  \A N \in DeletedSince :
    /\ retrieve_media(store, N) = None
    /\ FoundName(store.user_media, N) = <<>>
    /\ store.asked = N => store.got = None

\* C30: after delete_media(user, N) has returned True and until something is
\* saved under N again, the media list holds no entry named exactly N, and
\* retrieve_media(user, N) returns None unless a name that equals N when
\* letter case is ignored is saved, in which case it returns that entry.
C30_DeletedNameGoneUpToCase ==
  \A N \in DeletedSince :
    /\ \A i \in DOMAIN get_user_media_list(store) : get_user_media_list(store)[i].name # N
    /\ ~SavedIgnoringCase(N) =>
         /\ retrieve_media(store, N) = None
         /\ store.asked = N => store.got = None
    /\ (store.asked = N /\ store.got # None) =>
         /\ FoundName(store.user_media, N) # N
         /\ Lower(FoundName(store.user_media, N)) = Lower(N)

C30_Witness ==
  \E N \in DeletedSince :
    /\ store.asked = N /\ store.got = None
    /\ store.ended.how = "retrieved" /\ store.user_media # <<>>

====
